---- MODULE Spec2Model ----
(***************************************************************************)
(* Model of the rCore system call dispatcher, kernel/src/syscall/mod.rs.   *)
(*                                                                         *)
(* One trap is three steps: TrapEntry (the trap-entry collaborator hands   *)
(* an id, six argument words and the trap frame of the trapping thread to  *)
(* the dispatcher), syscall (the whole body of `syscall`: the match, the   *)
(* handler or stub it runs, and the final Result -> isize conversion), and *)
(* TrapReturn / Reschedule (the record of the finished call is dropped).   *)
(*                                                                         *)
(* Machine words are WordBits wide: usize is 0 .. 2^WordBits - 1 and isize *)
(* is -2^(WordBits-1) .. 2^(WordBits-1) - 1, so `as isize` wraps as it     *)
(* does on the 64-bit target.                                              *)
(***************************************************************************)
EXTENDS Integers, Sequences, FiniteSets, TLC

VARIABLES
    alive,      \* the threads that exist (their thread ids)
    probes,     \* per thread: the values id 218 returned to it in this lifetime
    pc,         \* "idle" | "entry" | "returned" | "exited" | "fault"
    caller,     \* the thread that trapped
    id,         \* `id: usize`
    args,       \* `args: [usize; 6]`
    tf0,        \* *tf when syscall was entered
    tf,         \* *tf now
    invoked,    \* the sys_* handler calls made by this syscall, in order
    stubs,      \* the number of inline stub bodies that produced a value
    log,        \* the warn!/error! records emitted by this syscall, in order
    trapError,  \* the calls of crate::trap::error made by this syscall
    ret,        \* <<r>> once the match has produced `ret`, else <<>>
    converted,  \* the number of times the final `match ret` ran
    retval,     \* <<v>> once syscall has returned v, else <<>>
    exitStatus, \* <<s>> once the calling thread was terminated with status s
    reprobe     \* this call is id 218 by a thread that was answered before

vars == <<alive, probes, pc, caller, id, args, tf0, tf, invoked, stubs, log,
          trapError, ret, converted, retval, exitStatus, reprobe>>

(***************************************************************************)
(* Bounds                                                                  *)
(***************************************************************************)
MaxThreads == 2
PidBase == 6
MaxVal == 2
MaxTf == 1
WordBits == 6

NumArgs == 6

WordMod == 2 ^ WordBits
MaxWord == WordMod - 1
IsizeMax == 2 ^ (WordBits - 1) - 1
IsizeMin == 0 - 2 ^ (WordBits - 1)

Tids == 1 .. MaxThreads
TfVals == 0 .. MaxTf

\* `w as isize` (and `w as i64`, the same width on the target)
AsIsize(w) == IF w > IsizeMax THEN w - WordMod ELSE w

\* The argument vectors tried: all zero, all ones, two vectors whose six
\* words are pairwise different (so that no two positions are confused), and
\* every vector that differs from all zero or all ones in one position.
ZeroArgs == [i \in 1 .. NumArgs |-> 0]
OnesArgs == [i \in 1 .. NumArgs |-> MaxWord]
ArgVecs ==
    { ZeroArgs, OnesArgs, [i \in 1 .. NumArgs |-> i], [i \in 1 .. NumArgs |-> MaxWord - i] }
    \cup { [ZeroArgs EXCEPT ![k] = MaxWord] : k \in 1 .. NumArgs }
    \cup { [OnesArgs EXCEPT ![k] = 0] : k \in 1 .. NumArgs }

(***************************************************************************)
(* SysResult and SysError                                                  *)
(***************************************************************************)
SysError ==
    { "Inval", "Nomem", "Noent", "Isdir", "Notdir", "Xdev", "Unimp",
      "Exists", "Notempty", "Io", "Unspcified" }

\* The enum's discriminants: `err as isize`
ErrNo_io15(e) ==
    CASE e = "Inval" -> 3
      [] e = "Nomem" -> 4
      [] e = "Noent" -> 16
      [] e = "Isdir" -> 17
      [] e = "Notdir" -> 18
      [] e = "Xdev" -> 19
      [] e = "Unimp" -> 20
      [] e = "Exists" -> 23
      [] e = "Notempty" -> 24
      [] e = "Io" -> 15
      [] e = "Unspcified" -> 1

ErrNo(e) ==
    CASE e = "Inval" -> 3
      [] e = "Nomem" -> 4
      [] e = "Noent" -> 16
      [] e = "Isdir" -> 17
      [] e = "Notdir" -> 18
      [] e = "Xdev" -> 19
      [] e = "Unimp" -> 20
      [] e = "Exists" -> 23
      [] e = "Notempty" -> 24
      [] e = "Io" -> 5
      [] e = "Unspcified" -> 1

\* SysResult = Result<isize, SysError>.  Never stands for a handler of type
\* `-> !`: it has no result.
Ok(code) == [tag |-> "Ok", code |-> code, err |-> ""]
Err(e) == [tag |-> "Err", code |-> 0, err |-> e]
Never == [tag |-> "Never", code |-> 0, err |-> ""]

\* The final `match ret { Ok(code) => code, Err(err) => -(err as isize) }`
Convert_unnegated(r) == IF r.tag = "Ok" THEN r.code ELSE ErrNo(r.err)

Convert(r) == IF r.tag = "Ok" THEN r.code ELSE 0 - ErrNo(r.err)

(***************************************************************************)
(* The match of `syscall`                                                  *)
(***************************************************************************)
\* A variant in which the disabled arm `007 => sys_poll()` is enabled.
HandlerOf_poll(i) ==
    CASE i = 0 -> "sys_read"
      [] i = 1 -> "sys_write"
      [] i = 2 -> "sys_open"
      [] i = 3 -> "sys_close"
      [] i = 4 -> "sys_stat"
      [] i = 5 -> "sys_fstat"
      [] i = 7 -> "sys_poll"
      [] i = 8 -> "sys_lseek"
      [] i = 9 -> "sys_mmap"
      [] i = 11 -> "sys_munmap"
      [] i = 19 -> "sys_readv"
      [] i = 20 -> "sys_writev"
      [] i = 24 -> "sys_yield"
      [] i = 33 -> "sys_dup2"
      [] i = 35 -> "sys_sleep"
      [] i = 39 -> "sys_getpid"
      [] i = 41 -> "sys_socket"
      [] i = 57 -> "sys_fork"
      [] i = 59 -> "sys_exec"
      [] i = 60 -> "sys_exit"
      [] i = 61 -> "sys_wait"
      [] i = 62 -> "sys_kill"
      [] i = 78 -> "sys_getdirentry"
      [] i = 96 -> "sys_get_time"
      [] i = 141 -> "sys_set_priority"
      [] i = 158 -> "sys_arch_prctl"
      [] OTHER -> ""

\* A variant in which the arms of 0 and 1 are exchanged.
HandlerOf_swapped(i) ==
    CASE i = 0 -> "sys_write"
      [] i = 1 -> "sys_read"
      [] i = 2 -> "sys_open"
      [] i = 3 -> "sys_close"
      [] i = 4 -> "sys_stat"
      [] i = 5 -> "sys_fstat"
      [] i = 8 -> "sys_lseek"
      [] i = 9 -> "sys_mmap"
      [] i = 11 -> "sys_munmap"
      [] i = 19 -> "sys_readv"
      [] i = 20 -> "sys_writev"
      [] i = 24 -> "sys_yield"
      [] i = 33 -> "sys_dup2"
      [] i = 35 -> "sys_sleep"
      [] i = 39 -> "sys_getpid"
      [] i = 41 -> "sys_socket"
      [] i = 57 -> "sys_fork"
      [] i = 59 -> "sys_exec"
      [] i = 60 -> "sys_exit"
      [] i = 61 -> "sys_wait"
      [] i = 62 -> "sys_kill"
      [] i = 78 -> "sys_getdirentry"
      [] i = 96 -> "sys_get_time"
      [] i = 141 -> "sys_set_priority"
      [] i = 158 -> "sys_arch_prctl"
      [] OTHER -> ""

\* The arms `NNN => sys_xxx(...)`: the handler an id is routed to, "" if none.
\* (A Rust literal with leading zeros is decimal: 011 is eleven.)
HandlerOf(i) ==
    CASE i = 0 -> "sys_read"
      [] i = 1 -> "sys_write"
      [] i = 2 -> "sys_open"
      [] i = 3 -> "sys_close"
      [] i = 4 -> "sys_stat"
      [] i = 5 -> "sys_fstat"
      [] i = 8 -> "sys_lseek"
      [] i = 9 -> "sys_mmap"
      [] i = 11 -> "sys_munmap"
      [] i = 19 -> "sys_readv"
      [] i = 20 -> "sys_writev"
      [] i = 24 -> "sys_yield"
      [] i = 33 -> "sys_dup2"
      [] i = 35 -> "sys_sleep"
      [] i = 39 -> "sys_getpid"
      [] i = 41 -> "sys_socket"
      [] i = 57 -> "sys_fork"
      [] i = 59 -> "sys_exec"
      [] i = 60 -> "sys_exit"
      [] i = 61 -> "sys_wait"
      [] i = 62 -> "sys_kill"
      [] i = 78 -> "sys_getdirentry"
      [] i = 96 -> "sys_get_time"
      [] i = 141 -> "sys_set_priority"
      [] i = 158 -> "sys_arch_prctl"
      [] OTHER -> ""

\* The arms "for musl: empty impl" whose body is `warn!(..); Ok(0)`
StubIds == { 12, 13, 14, 16, 102, 107, 108, 131 }

\* The name each warn!("sys_xxx is unimplemented") carries
StubName(i) ==
    CASE i = 12 -> "sys_brk"
      [] i = 13 -> "sys_sigaction"
      [] i = 14 -> "sys_sigprocmask"
      [] i = 16 -> "sys_ioctl"
      [] i = 102 -> "sys_getuid"
      [] i = 107 -> "sys_geteuid"
      [] i = 108 -> "sys_getegid"
      [] i = 131 -> "sys_sigaltstack"
      [] i = 218 -> "sys_set_tid_address"
      [] i = 231 -> "sys_exit_group"
      [] OTHER -> ""

\* A variant in which the arm of 231 is an empty stub like its neighbours.
Arm_exit_group_stub(i) ==
    IF HandlerOf(i) # "" THEN "handler"
    ELSE IF i \in StubIds \cup {231} THEN "stub"
    ELSE IF i = 218 THEN "set_tid_address"
    ELSE "unknown"

\* Which arm of the match an id selects
Arm(i) ==
    IF HandlerOf(i) # "" THEN "handler"
    ELSE IF i \in StubIds THEN "stub"
    ELSE IF i = 218 THEN "set_tid_address"
    ELSE IF i = 231 THEN "exit_group"
    ELSE "unknown"

\* The ids whose arm is commented out in the source
ReservedIds ==
    { 7, 21, 34, 40, 42, 43, 44, 45, 46, 47, 48, 49, 50, 54, 55, 56, 72, 74,
      76, 77, 79, 80, 82, 83, 86, 87, 97, 98, 133, 160, 162, 169, 293 }

\* The ids dispatched in the model: every id the source names, and three it
\* does not.
Ids ==
    { 0, 1, 2, 3, 4, 5, 8, 9, 11, 19, 20, 24, 33, 35, 39, 41, 57, 59, 60, 61,
      62, 78, 96, 141, 158 }
    \cup StubIds \cup { 218, 231 } \cup ReservedIds \cup { 6, 232, 9999 }

\* The positions of `args` an arm hands to its handler, in order
ArgIdx(i) ==
    CASE i \in { 0, 1, 2, 8, 19, 20, 41, 59 } -> <<1, 2, 3>>
      [] i \in { 4, 5, 11, 33, 61, 78, 158 } -> <<1, 2>>
      [] i \in { 3, 35, 60, 62, 141 } -> <<1>>
      [] i = 9 -> <<1, 2, 3, 4, 5, 6>>
      [] OTHER -> <<>>

\* The cast an arm applies to position k of args before the call.  The
\* signed casts of full width (`as isize`, `as i64`) are modelled; pointer
\* casts keep the word, and the narrowing casts (`as u8`, `as i32`) are left
\* to the handler that receives the word.
CastWord(i, k, w) ==
    IF (i = 60 /\ k = 1) \/ (i = 8 /\ k = 2) THEN AsIsize(w) ELSE w

HandlerWords(i, a) ==
    [n \in 1 .. Len(ArgIdx(i)) |-> CastWord(i, ArgIdx(i)[n], a[ArgIdx(i)[n]])]

\* A variant in which sys_read also receives tf.
PassesTf_read(i) == i \in { 0, 57, 59, 158 }

\* The arms that hand `tf` to their handler: sys_fork(tf), sys_exec(.., tf),
\* sys_arch_prctl(.., tf)
PassesTf(i) == i \in { 57, 59, 158 }

\* One call of a collaborator: its name, the words passed, whether the
\* trap frame was passed, and what it returned.
Call(fn, words, frame, r) ==
    [fn |-> fn, words |-> words, tf |-> frame, result |-> r]

\* A variant in which a failing handler is tried a second time.
HandlerCalls_retry(i, a, f, r) ==
    IF r.tag = "Err"
    THEN << Call(HandlerOf(i), HandlerWords(i, a), IF PassesTf(i) THEN <<f>> ELSE <<>>, r),
            Call(HandlerOf(i), HandlerWords(i, a), IF PassesTf(i) THEN <<f>> ELSE <<>>, r) >>
    ELSE << Call(HandlerOf(i), HandlerWords(i, a), IF PassesTf(i) THEN <<f>> ELSE <<>>, r) >>

\* The handler calls a handler arm makes: one.
HandlerCalls(i, a, f, r) ==
    << Call(HandlerOf(i), HandlerWords(i, a), IF PassesTf(i) THEN <<f>> ELSE <<>>, r) >>

\* A variant in which a stub reports "not implemented".
StubResult_unimp(i, a) == Err("Unimp")

\* The value of a stub arm: `Ok(0)`
StubResult(i, a) == Ok(0)

\* A variant in which 218 is an empty stub like its neighbours.
SetTidAddressResult_zero(tid) == Ok(0)

\* The value of arm 218: `Ok(thread::current().id() as isize)`
SetTidAddressResult(tid) == Ok(AsIsize(tid))

\* A variant in which the diagnostic omits the id.
UnknownLogWords_noid(i, a) == a

\* The words of error!("unknown syscall id: {:#x?}, args: {:x?}", id, args)
UnknownLogWords(i, a) == <<i>> \o a

\* The arguments of crate::trap::error(tf): the trap frame and no word.
TrapErrorCall(f) == Call("crate::trap::error", <<>>, <<f>>, Never)

LogRecord(level, msg, words) == [level |-> level, msg |-> msg, words |-> words]

(***************************************************************************)
(* The collaborators, from their contracts                                 *)
(***************************************************************************)
\* thread::current().id()
ThreadId(t) == t

\* The pid of the process thread t belongs to (one thread per process)
PidOf(t) == PidBase + t

\* What a handler may return to the dispatcher
HandlerResults(h, t, al) ==
    CASE h = "sys_exit" -> { Never }
      [] h = "sys_getpid" -> { Ok(PidOf(t)) }
      [] h = "sys_fork" -> { Ok(PidOf(c)) : c \in Tids \ al } \cup { Err(e) : e \in SysError }
      [] OTHER -> { Ok(v) : v \in 0 .. MaxVal } \cup { Err(e) : e \in SysError }

\* The threads after a handler returned r: a successful fork adds the child
AliveAfter(h, r, al) ==
    IF h = "sys_fork" /\ r.tag = "Ok"
    THEN al \cup { c \in Tids : PidOf(c) = r.code }
    ELSE al

\* The trap frame after a handler returned: a handler that was handed tf
\* may have written any value to it, the others cannot reach it
TfAfter(i, f) == IF PassesTf(i) THEN TfVals ELSE { f }

\* The call arm 231 makes: `sys_exit(args[0] as isize);`
ExitGroupCalls(a) == << Call("sys_exit", <<AsIsize(a[1])>>, <<>>, Never) >>

(***************************************************************************)
(* State machine                                                           *)
(***************************************************************************)
NoCall ==
    /\ caller = 0 /\ id = 0 /\ args = ZeroArgs /\ tf0 = 0 /\ tf = 0
    /\ invoked = <<>> /\ stubs = 0 /\ log = <<>> /\ trapError = <<>>
    /\ ret = <<>> /\ converted = 0 /\ retval = <<>> /\ exitStatus = <<>>
    /\ reprobe = FALSE

Init ==
    /\ alive = {1}
    /\ probes = [t \in Tids |-> {}]
    /\ pc = "idle"
    /\ NoCall

\* A thread traps into the kernel: the trap entry calls syscall(id, args, tf).
TrapEntry ==
    /\ pc = "idle"
    /\ \E t \in alive, i \in Ids, a \in ArgVecs, f \in TfVals :
        /\ caller' = t
        /\ id' = i
        /\ args' = a
        /\ tf0' = f
        /\ tf' = f
    /\ pc' = "entry"
    /\ UNCHANGED <<alive, probes, invoked, stubs, log, trapError, ret,
                   converted, retval, exitStatus, reprobe>>

\* syscall runs to its end: the match produced r, and the final match
\* converts it.
Return(r) ==
    /\ ret' = <<r>>
    /\ converted' = converted + 1
    /\ retval' = <<Convert(r)>>
    /\ pc' = "returned"
    /\ UNCHANGED <<caller, id, args, tf0, exitStatus>>

\* syscall does not return: the calling thread is gone.
Diverge(to) ==
    /\ pc' = to
    /\ alive' = alive \ {caller}
    /\ probes' = [probes EXCEPT ![caller] = {}]
    /\ UNCHANGED <<caller, id, args, tf0, tf, stubs, ret, converted, retval,
                   reprobe>>

\* `NNN => sys_xxx(..)` for a handler that returns a SysResult
ArmHandler ==
    /\ pc = "entry"
    /\ Arm(id) = "handler"
    /\ HandlerOf(id) # "sys_exit"
    /\ \E r \in HandlerResults(HandlerOf(id), caller, alive), f \in TfAfter(id, tf0) :
        /\ invoked' = HandlerCalls(id, args, tf0, r)
        /\ tf' = f
        /\ alive' = AliveAfter(HandlerOf(id), r, alive)
        /\ Return(r)
    /\ UNCHANGED <<probes, stubs, log, trapError, reprobe>>

\* `060 => sys_exit(args[0] as isize)`: sys_exit is `-> !`
ArmExit ==
    /\ pc = "entry"
    /\ Arm(id) = "handler"
    /\ HandlerOf(id) = "sys_exit"
    /\ invoked' = HandlerCalls(id, args, tf0, Never)
    /\ exitStatus' = <<AsIsize(args[1])>>
    /\ Diverge("exited")
    /\ UNCHANGED <<log, trapError>>

\* `012 => { warn!("sys_brk is unimplemented"); Ok(0) }` and its like
ArmStub ==
    /\ pc = "entry"
    /\ Arm(id) = "stub"
    /\ log' = << LogRecord("warn", StubName(id), <<>>) >>
    /\ stubs' = stubs + 1
    /\ Return(StubResult(id, args))
    /\ UNCHANGED <<alive, probes, tf, invoked, trapError, reprobe>>

\* `218 => { warn!(..); Ok(thread::current().id() as isize) }`
ArmSetTidAddress ==
    /\ pc = "entry"
    /\ Arm(id) = "set_tid_address"
    /\ log' = << LogRecord("warn", StubName(id), <<>>) >>
    /\ stubs' = stubs + 1
    /\ Return(SetTidAddressResult(ThreadId(caller)))
    /\ probes' = [probes EXCEPT ![caller] = @ \cup { retval'[1] }]
    /\ reprobe' = (probes[caller] # {})
    /\ UNCHANGED <<alive, tf, invoked, trapError>>

\* `231 => { warn!(..); sys_exit(args[0] as isize); }`
ArmExitGroup ==
    /\ pc = "entry"
    /\ Arm(id) = "exit_group"
    /\ log' = << LogRecord("warn", StubName(id), <<>>) >>
    /\ invoked' = ExitGroupCalls(args)
    /\ exitStatus' = <<invoked'[1].words[1]>>
    /\ Diverge("exited")
    /\ UNCHANGED <<trapError>>

\* `_ => { error!(.., id, args); crate::trap::error(tf); }`: error is `-> !`
ArmUnknown ==
    /\ pc = "entry"
    /\ Arm(id) = "unknown"
    /\ log' = << LogRecord("error", "unknown syscall id", UnknownLogWords(id, args)) >>
    /\ trapError' = << TrapErrorCall(tf) >>
    /\ Diverge("fault")
    /\ UNCHANGED <<invoked, exitStatus>>

\* pub fn syscall(id, args, tf) -> isize
syscall ==
    \/ ArmHandler
    \/ ArmExit
    \/ ArmStub
    \/ ArmSetTidAddress
    \/ ArmExitGroup
    \/ ArmUnknown

Forget ==
    /\ pc' = "idle"
    /\ caller' = 0 /\ id' = 0 /\ args' = ZeroArgs /\ tf0' = 0 /\ tf' = 0
    /\ invoked' = <<>> /\ stubs' = 0 /\ log' = <<>> /\ trapError' = <<>>
    /\ ret' = <<>> /\ converted' = 0 /\ retval' = <<>> /\ exitStatus' = <<>>
    /\ reprobe' = FALSE
    /\ UNCHANGED <<alive, probes>>

\* The trap entry resumes the calling thread with the returned integer.
TrapReturn ==
    /\ pc = "returned"
    /\ Forget

\* The calling thread is gone; another thread runs.
Reschedule ==
    /\ pc \in { "exited", "fault" }
    /\ Forget

Next == TrapEntry \/ syscall \/ TrapReturn \/ Reschedule

Spec == Init /\ [][Next]_vars

TypeOK ==
    /\ alive \subseteq Tids
    /\ pc \in { "idle", "entry", "returned", "exited", "fault" }
    /\ pc = "idle" => NoCall
    /\ pc # "idle" => id \in Ids /\ args \in ArgVecs /\ tf0 \in TfVals /\ tf \in TfVals
    /\ pc \in { "entry", "returned" } => caller \in alive
    /\ \A i \in 1 .. Len(retval) : retval[i] \in IsizeMin .. IsizeMax

(***************************************************************************)
(* Properties                                                              *)
(***************************************************************************)
Finished == pc \in { "returned", "exited", "fault" }

\* The numeric identity of each error kind, as documented
ClaimedIdentity ==
    [e \in { "Inval", "Nomem", "Io", "Noent", "Isdir", "Notdir", "Xdev",
             "Unimp", "Exists", "Notempty", "Unspcified" } |->
        CASE e = "Inval" -> 3 [] e = "Nomem" -> 4 [] e = "Io" -> 5
          [] e = "Noent" -> 16 [] e = "Isdir" -> 17 [] e = "Notdir" -> 18
          [] e = "Xdev" -> 19 [] e = "Unimp" -> 20 [] e = "Exists" -> 23
          [] e = "Notempty" -> 24 [] e = "Unspcified" -> 1]

\* The numbering table, as documented
ClaimedTable ==
    (0 :> "sys_read") @@ (1 :> "sys_write") @@ (2 :> "sys_open")
    @@ (3 :> "sys_close") @@ (4 :> "sys_stat") @@ (5 :> "sys_fstat")
    @@ (8 :> "sys_lseek") @@ (9 :> "sys_mmap") @@ (11 :> "sys_munmap")
    @@ (19 :> "sys_readv") @@ (20 :> "sys_writev") @@ (24 :> "sys_yield")
    @@ (33 :> "sys_dup2") @@ (35 :> "sys_sleep") @@ (39 :> "sys_getpid")
    @@ (41 :> "sys_socket") @@ (57 :> "sys_fork") @@ (59 :> "sys_exec")
    @@ (60 :> "sys_exit") @@ (61 :> "sys_wait") @@ (62 :> "sys_kill")
    @@ (78 :> "sys_getdirentry") @@ (96 :> "sys_get_time")
    @@ (141 :> "sys_set_priority") @@ (158 :> "sys_arch_prctl")

ClaimedStubs == { 12, 13, 14, 16, 102, 107, 108, 131 }

ClaimedMapped == DOMAIN ClaimedTable \cup ClaimedStubs \cup { 218, 231 }

\* The integer a Result stands for on the wire, as documented
Wire(r) == IF r.tag = "Ok" THEN r.code ELSE 0 - ClaimedIdentity[r.err]

\* C1: when the handler an id is routed to returns Failure(kind), syscall
\* returns the negation of the documented identity of kind, and that value is
\* strictly negative.
C1_FailureIsNegatedIdentity ==
    (pc = "returned" /\ invoked # <<>> /\ invoked[Len(invoked)].result.tag = "Err")
        => /\ retval = << 0 - ClaimedIdentity[invoked[Len(invoked)].result.err] >>
           /\ retval[1] < 0

\* open (id 2) failed with no-such-entry and syscall returned -16.
C1_Witness ==
    /\ pc = "returned" /\ id = 2
    /\ invoked[1].fn = "sys_open" /\ invoked[1].result = Err("Noent")
    /\ retval = << -16 >>

\* C2: for every id of the documented table, syscall invokes the handler the
\* table lists and no other, and what it returns is that handler's result;
\* getpid returns the pid of the caller's process.
C2_TableRouting ==
    (Finished /\ id \in DOMAIN ClaimedTable)
        => /\ pc \in { "returned", "exited" }
           /\ Len(invoked) = 1
           /\ invoked[1].fn = ClaimedTable[id]
           /\ stubs = 0
           /\ pc = "returned" => retval = << Wire(invoked[1].result) >>
           /\ (pc = "returned" /\ id = 39) => retval = << PidOf(caller) >>

\* getpid on a thread of process 7 returned 7.
C2_Witness ==
    /\ pc = "returned" /\ id = 39 /\ PidOf(caller) = 7
    /\ invoked[1].fn = "sys_getpid" /\ retval = << 7 >>

\* C3: for an id with no table entry, reserved or never defined, syscall
\* calls the fault path exactly once, invokes no handler or stub, and returns
\* nothing through the final conversion.
C3_UnmappedFaults ==
    (Finished /\ id \notin ClaimedMapped)
        => /\ pc = "fault"
           /\ Len(trapError) = 1
           /\ invoked = <<>> /\ stubs = 0
           /\ ret = <<>> /\ converted = 0 /\ retval = <<>>

\* The reserved id 293 (pipe) took the fault path.
C3_Witness ==
    /\ pc = "fault" /\ id = 293 /\ id \in ReservedIds
    /\ Len(trapError) = 1 /\ retval = <<>>

\* C4: a stub id other than 218 returns exactly 0, whatever the arguments.
C4_StubsReturnZero ==
    (Finished /\ id \in ClaimedStubs) => (pc = "returned" /\ retval = << 0 >>)

\* ioctl (id 16) with all-ones arguments returned 0.
C4_Witness ==
    /\ pc = "returned" /\ id = 16 /\ args = OnesArgs /\ retval = << 0 >>

\* C5: ids 60 and 231 both terminate the calling thread with the status
\* taken from argument word 0, through one call of sys_exit; neither returns
\* a value, takes the default branch, or yields a stub's 0.
C5_ExitGroupIsExit ==
    (Finished /\ id \in { 60, 231 })
        => /\ pc = "exited"
           /\ exitStatus = << AsIsize(args[1]) >>
           /\ caller \notin alive
           /\ Len(invoked) = 1
           /\ invoked[1].fn = "sys_exit"
           /\ invoked[1].words = << AsIsize(args[1]) >>
           /\ trapError = <<>> /\ stubs = 0
           /\ ret = <<>> /\ retval = <<>>

\* exit-group with status word all ones terminated the caller with -1.
C5_Witness ==
    /\ pc = "exited" /\ id = 231 /\ args[1] = MaxWord
    /\ exitStatus = << -1 >> /\ caller \notin alive

\* C6: only the handlers of 57, 59 and 158 are handed the trap frame; for
\* every other id that returns, the trap frame is what it was on entry.
C6_FrameUnchanged ==
    (pc = "returned" /\ id \notin { 57, 59, 158 })
        => /\ tf = tf0
           /\ \A n \in 1 .. Len(invoked) : invoked[n].tf = <<>>

\* A read returned with the (non-zero) trap frame untouched.
C6_Witness ==
    /\ pc = "returned" /\ id = 0 /\ tf0 = MaxTf /\ tf = tf0 /\ MaxTf > 0

\* C7: the returned integer is the success value, and non-negative, exactly
\* when the handler or stub produced Success; it is negative exactly when it
\* produced Failure.
C7_SignEncodesResult ==
    pc = "returned"
        => /\ Len(ret) = 1 /\ Len(retval) = 1
           /\ ret[1].tag \in { "Ok", "Err" }
           /\ ret[1].tag = "Ok" <=> retval[1] >= 0
           /\ ret[1].tag = "Err" <=> retval[1] < 0
           /\ ret[1].tag = "Ok" => retval[1] = ret[1].code

\* A close failed with "unspecified" (identity 1) and returned -1.
C7_Witness ==
    /\ pc = "returned" /\ id = 3 /\ ret = << Err("Unspcified") >>
    /\ retval = << -1 >>

\* C8: id 218 returns the calling thread's identifier, a positive integer,
\* and every probe a thread makes in one lifetime returns the same value.
C8_TidProbeStable ==
    /\ (pc = "returned" /\ id = 218)
           => (retval = << ThreadId(caller) >> /\ retval[1] > 0)
    /\ \A t \in Tids : Cardinality(probes[t]) <= 1

\* Thread 2 probes again while thread 1 exists, and is answered 2 again.
C8_Witness ==
    /\ pc = "returned" /\ id = 218 /\ reprobe
    /\ caller = 2 /\ alive = { 1, 2 } /\ retval = << 2 >>

\* C9 as stated: on an unmapped id the fault-reporting collaborator observes
\* the id and the six argument words together with the register state.
C9_CollaboratorSeesIdAndArgs ==
    pc = "fault"
        => /\ Len(trapError) = 1
           /\ trapError[1].tf = << tf0 >>
           /\ trapError[1].words = <<id>> \o args

\* C9 amended: on an unmapped id the diagnostic record carries the id and the
\* six argument words, unchanged, and the fault-reporting collaborator is
\* handed the register state.
C9_DiagnosticSeesIdAndArgs ==
    pc = "fault"
        => /\ Len(log) = 1
           /\ log[1].level = "error"
           /\ log[1].words = <<id>> \o args
           /\ Len(trapError) = 1
           /\ trapError[1].fn = "crate::trap::error"
           /\ trapError[1].tf = << tf0 >>

\* id 9999 with arguments 1..6 took the fault path.
C9_Witness ==
    /\ pc = "fault" /\ id = 9999 /\ args = <<1, 2, 3, 4, 5, 6>>
    /\ log[1].words = <<9999, 1, 2, 3, 4, 5, 6>>
    /\ trapError[1].tf = << tf0 >>

\* C10: a call that returns has made exactly one handler invocation or run
\* exactly one inline stub, converted once, and returned one integer.
C10_OneInvocation ==
    pc = "returned"
        => /\ Len(invoked) + stubs = 1
           /\ converted = 1
           /\ Len(retval) = 1

\* A write failed; its handler was invoked once.
C10_Witness ==
    /\ pc = "returned" /\ id = 1 /\ ret[1].tag = "Err"
    /\ Len(invoked) = 1 /\ stubs = 0

====
